---- MODULE Spec2Model ----
(***************************************************************************)
(* Memory retrieval engine of claude_memory: the Durable Store             *)
(* (storage/file_store.py, FileStore), the Search Index                    *)
(* (storage/vector_store.py, VectorStore), the relevance scoring and the   *)
(* reconciliation step (MemoryManager.awaken).                             *)
(*                                                                         *)
(* Numbers: a score s in [0,1] is the integer s * Unit.  Importance is an  *)
(* integer number of points in 0..10.  Text is a sequence of one-character *)
(* strings.  An embedding is a 2-dimensional integer vector whose norm is  *)
(* an integer, so that every cosine is an exact multiple of 1/Unit.        *)
(***************************************************************************)
EXTENDS Integers, Sequences, FiniteSets, TLC

\* ------------------------------------------------------------------ bounds
MaxWrites == 2      \* record files written (put, store) in one behaviour
MaxCorrupt == 1     \* files damaged by the environment in one behaviour

\* --------------------------------------------------------------- constants
Unit == 60000               \* the score 1.0
NoMemory == [kind |-> "None"]       \* Python None where a Memory is expected
NoFile == [kind |-> "nofile"]       \* Path.exists() is False
BadFile == [kind |-> "malformed"]   \* json.load or Memory(**data) rejects it
NoEntry == [kind |-> "absent"]      \* key not in the lookup index
NoVec == <<>>                       \* no embedding (None / key absent)

\* models/memory.py: enum declaration order is the iteration order
MemoryType == <<"working", "semantic", "episodic", "procedural">>
MemoryScope == <<"global", "project">>

SeqToSet(s) == {s[i] : i \in DOMAIN s}

\* ------------------------------------------------------------------- text
LowerChar(c) == IF c = "A" THEN "a" ELSE IF c = "B" THEN "b" ELSE c
\* str.lower()
Lower(s) == [i \in DOMAIN s |-> LowerChar(s[i])]

\* `needle in hay` on str
Contains(needle, hay) ==
    \E i \in 0..(Len(hay) - Len(needle)) :
        SubSeq(hay, i + 1, i + Len(needle)) = needle

\* set(str.split()): the maximal runs of non-blank characters
Split(s) ==
    {SubSeq(s, p[1], p[2]) : p \in
        {p \in (1..Len(s)) \X (1..Len(s)) :
            /\ p[1] <= p[2]
            /\ \A k \in p[1]..p[2] : s[k] # " "
            /\ (p[1] = 1 \/ s[p[1] - 1] = " ")
            /\ (p[2] = Len(s) \/ s[p[2] + 1] = " ")}}

\* --------------------------------------------------------------- records
\* models/memory.py Memory: the fields the engine reads.  content is text
\* (JSON-native), tags a list, context the list of the dict's values.
Mem(id, scope, type, title, content, tags, importance, context) ==
    [id |-> id, scope |-> scope, memory_type |-> type, title |-> title,
     content |-> content, tags |-> tags, importance |-> importance,
     context |-> context]

Ids == {"m1", "m2"}
\* the orders in which Path.glob may list the files of one directory
GlobOrders == {<<"m1", "m2">>, <<"m2", "m1">>}

\* the partitions in the order the nested loops of FileStore visit them
Partitions ==
    [i \in 1..(Len(MemoryScope) * Len(MemoryType)) |->
        <<MemoryScope[((i - 1) \div Len(MemoryType)) + 1],
          MemoryType[((i - 1) % Len(MemoryType)) + 1]>>]

FileKeys == {<<Partitions[i][1], Partitions[i][2], id>> :
                i \in DOMAIN Partitions, id \in Ids}

\* the callers that may write to the Search Index
Writers == {"w1", "w2"}
\* MemoryMCPServer.__init__: self.memory_manager = None
NoManager == [created |-> FALSE, awakened |-> FALSE]
\* no search_memories call is running
NoQuery == [kind |-> "noquery"]

VARIABLES
    files,              \* FileKeys -> NoFile | BadFile | the JSON written
    index,              \* scope -> (id -> NoEntry | lookup-index entry)
    memory_cache,       \* VectorStore._memory_cache: id -> NoMemory | Memory
    cache_order,        \* insertion order of the keys of _memory_cache
    memory_embeddings,  \* VectorStore._memory_embeddings: id -> NoVec | vector
    pending,            \* the Memory a store has persisted and not yet indexed
    last,               \* the operation that returned last, with what it returned
    deleted,            \* ids a delete removed (True returned, or evicted) and not written since
    reconciled,         \* awaken returned and no write or restart happened since
    writes,             \* number of write operations so far
    corrupts,           \* number of files damaged so far
    in_upsert,          \* writer -> the Memory it cached whose embedding is not yet written
    removing,           \* the id a delete evicted from the index and not yet from disk
    memory_manager,     \* MemoryMCPServer.memory_manager and its _awakened flag
    in_put,             \* writer -> the put it is in: its Memory and the index it read
    in_query,           \* the search that has started and not yet returned
    record              \* a Memory object in the hands of a caller

vars == <<files, index, memory_cache, cache_order, memory_embeddings,
          pending, last, deleted, reconciled, writes, corrupts,
          in_upsert, removing, memory_manager, in_put, in_query, record>>

\* ---------------------------------------------------------- Durable Store
\* FileStore.store_memory, lines 60-66: memory.dict() plus "stored_at",
\* written as JSON
JsonDump(memory) == [kind |-> "json", stored_at |-> "now", data |-> memory]
\* json.load, pop("stored_at"), Memory(**memory_data)
JsonLoad(file) == file.data

FileKey(memory) == <<memory.scope, memory.memory_type, memory.id>>

\* FileStore._update_index: index[memory.id] = {...} in the scope's index
update_index(ix, memory) ==
    [ix EXCEPT ![memory.scope][memory.id] =
        [type |-> memory.memory_type, title |-> memory.title,
         tags |-> memory.tags, importance |-> memory.importance]]

\* FileStore._remove_from_index: the first scope whose index has the id
remove_from_index(ix, id) ==
    LET has == {i \in DOMAIN MemoryScope : ix[MemoryScope[i]][id] # NoEntry}
    IN  IF has = {} THEN ix
        ELSE LET i == CHOOSE i \in has : \A j \in has : i <= j
             IN  [ix EXCEPT ![MemoryScope[i]][id] = NoEntry]

\* FileStore.store_memory: the file of (scope, type, id) is (over)written
file_store_memory(f, memory) ==
    [f EXCEPT ![FileKey(memory)] = JsonDump(memory)]

\* the partitions, in visiting order, that hold a file named <id>.json
PartitionsWith(f, id) ==
    {i \in DOMAIN Partitions :
        f[<<Partitions[i][1], Partitions[i][2], id>>] # NoFile}

FirstFile(f, id) ==
    LET i == CHOOSE i \in PartitionsWith(f, id) :
                 \A j \in PartitionsWith(f, id) : i <= j
    IN  <<Partitions[i][1], Partitions[i][2], id>>

\* FileStore.load_memory: the first existing file; an exception gives None
load_memory(f, id) ==
    IF PartitionsWith(f, id) = {} THEN NoMemory
    ELSE IF f[FirstFile(f, id)] = BadFile THEN NoMemory
    ELSE JsonLoad(f[FirstFile(f, id)])

\* FileStore.delete_memory: unlinks the first existing file and returns
delete_memory_found(f, id) == PartitionsWith(f, id) # {}
delete_memory_files(f, id) ==
    IF PartitionsWith(f, id) = {} THEN f
    ELSE [f EXCEPT ![FirstFile(f, id)] = NoFile]

\* an enumeration that gives up on the first file that fails to load
load_all_memories_abort(f, ord) ==
    LET n == Len(ord)
        keyAt(k) == <<Partitions[((k - 1) \div n) + 1][1],
                      Partitions[((k - 1) \div n) + 1][2],
                      ord[((k - 1) % n) + 1]>>
        all == [k \in 1..(Len(Partitions) * n) |-> f[keyAt(k)]]
        good == SelectSeq(all, LAMBDA x : x.kind = "json")
    IN  IF \E k \in DOMAIN all : all[k] = BadFile THEN <<>>
        ELSE [k \in DOMAIN good |-> JsonLoad(good[k])]

\* FileStore.load_all_memories: scopes, then types, then glob("*.json") in the
\* order ord; a file that fails to load is skipped
load_all_memories(f, ord) ==
    LET n == Len(ord)
        keyAt(k) == <<Partitions[((k - 1) \div n) + 1][1],
                      Partitions[((k - 1) \div n) + 1][2],
                      ord[((k - 1) % n) + 1]>>
        all == [k \in 1..(Len(Partitions) * n) |-> f[keyAt(k)]]
        good == SelectSeq(all, LAMBDA x : x.kind = "json")
    IN  [k \in DOMAIN good |-> JsonLoad(good[k])]

\* ----------------------------------------------------------- Search Index
\* VectorStore.store_memory: the Memory is cached first; the embedding is
\* written only when one was generated (e is what _generate_embedding returned)
vs_cache(cache, memory) == [cache EXCEPT ![memory.id] = memory]
vs_order(cache, order, memory) ==
    IF cache[memory.id] = NoMemory THEN Append(order, memory.id) ELSE order
vs_embeddings(embs, memory, e) ==
    IF e # NoVec THEN [embs EXCEPT ![memory.id] = e] ELSE embs

\* np.dot and np.linalg.norm on the integer vectors of the model
RECURSIVE DotFrom(_, _, _)
DotFrom(a, b, i) ==
    IF i > Len(a) THEN 0 ELSE a[i] * b[i] + DotFrom(a, b, i + 1)
Dot(a, b) == DotFrom(a, b, 1)
Norm(a) == CHOOSE n \in 0..(Dot(a, a)) : n * n = Dot(a, a)

\* cosine_similarity / fallback_cosine_similarity, in 1/Unit; a zero vector
\* gives 0.0
Cosine(a, b) ==
    IF Norm(a) = 0 \/ Norm(b) = 0 THEN 0
    ELSE (Dot(a, b) * Unit) \div (Norm(a) * Norm(b))

\* _calculate_relevance, lines 213-232: 0.7 * cosine when both embeddings
\* exist; vectors of different dimension raise, which is caught and adds 0
SemanticTerm(qe, me) ==
    IF qe = NoVec \/ me = NoVec THEN 0
    ELSE IF Len(qe) # Len(me) THEN 0
    ELSE (Cosine(qe, me) * 7) \div 10

AnyContains(ql, texts) ==
    \E i \in DOMAIN texts : Contains(ql, Lower(texts[i]))

\* a lexical term that adds the tag bonus once for every matching tag
keyword_relevance_per_tag(memory, qtext) ==
    LET ql == Lower(qtext)
        query_words == Split(ql)
        title_words == Split(Lower(memory.title))
        content_words == Split(Lower(memory.content))
        n == IF Cardinality(query_words) > 1
             THEN Cardinality(query_words) ELSE 1
        matching == {i \in DOMAIN memory.tags : Contains(ql, Lower(memory.tags[i]))}
        score ==
            (IF Contains(ql, Lower(memory.title)) THEN (4 * Unit) \div 10 ELSE 0)
          + (IF Contains(ql, Lower(memory.content)) THEN (3 * Unit) \div 10 ELSE 0)
          + Cardinality(matching) * ((2 * Unit) \div 10)
          + (IF AnyContains(ql, memory.context) THEN Unit \div 10 ELSE 0)
          + (Cardinality(query_words \cap title_words) * (Unit \div 10)) \div n
          + (Cardinality(query_words \cap content_words) * (Unit \div 20)) \div n
    IN  IF score > Unit THEN Unit ELSE score

\* a lexical term that sees no match at all
keyword_relevance_zero(memory, qtext) == 0

\* VectorStore._calculate_keyword_relevance, in 1/Unit
calculate_keyword_relevance(memory, qtext) ==
    LET ql == Lower(qtext)
        query_words == Split(ql)
        title_words == Split(Lower(memory.title))
        content_words == Split(Lower(memory.content))
        n == IF Cardinality(query_words) > 1
             THEN Cardinality(query_words) ELSE 1
        score ==
            (IF Contains(ql, Lower(memory.title)) THEN (4 * Unit) \div 10 ELSE 0)
          + (IF Contains(ql, Lower(memory.content)) THEN (3 * Unit) \div 10 ELSE 0)
          + (IF AnyContains(ql, memory.tags) THEN (2 * Unit) \div 10 ELSE 0)
          + (IF AnyContains(ql, memory.context) THEN Unit \div 10 ELSE 0)
          + (Cardinality(query_words \cap title_words) * (Unit \div 10)) \div n
          + (Cardinality(query_words \cap content_words) * (Unit \div 20)) \div n
    IN  IF score > Unit THEN Unit ELSE score

\* VectorStore._calculate_relevance, in 1/Unit: min(1.0, ...) and no lower clamp
calculate_relevance(memory, qtext, qe, me) ==
    LET relevance_score ==
              SemanticTerm(qe, me)
            + (calculate_keyword_relevance(memory, qtext) * 3) \div 10
            + (memory.importance * Unit) \div 100
    IN  IF relevance_score > Unit THEN Unit ELSE relevance_score

\* the filters with the scope test left out
passes_without_scope(memory, relevance, q) ==
    /\ relevance >= q.min_relevance
    /\ ~(q.memory_types # {} /\ memory.memory_type \notin q.memory_types)
    /\ ~(q.tags # {} /\ ~\E t \in q.tags : t \in SeqToSet(memory.tags))

\* one entry of MemoryResult.match_reasons; tag is the tag named, if any
Reason(text, tag) == [reason |-> text, tag |-> tag]

\* VectorStore._get_match_reasons; model says whether self._model is not None,
\* me is the entry of _memory_embeddings for the memory (NoVec: no entry)
get_match_reasons(memory, qtext, model, me) ==
    LET query_lower == Lower(qtext)
        matching == {i \in DOMAIN memory.tags :
                        Contains(query_lower, Lower(memory.tags[i]))}
        first == CHOOSE i \in matching : \A j \in matching : i <= j
    IN    (IF Contains(query_lower, Lower(memory.title))
           THEN <<Reason("Title match", <<>>)>> ELSE <<>>)
       \o (IF Contains(query_lower, Lower(memory.content))
           THEN <<Reason("Content match", <<>>)>> ELSE <<>>)
       \o (IF matching # {}
           THEN <<Reason("Tag match", memory.tags[first])>> ELSE <<>>)
       \o (IF memory.importance > 7
           THEN <<Reason("High importance", <<>>)>> ELSE <<>>)
       \o (IF model /\ me # NoVec
           THEN <<Reason("Semantic similarity", <<>>)>> ELSE <<>>)

\* neither threshold nor filters
passes_any(memory, relevance, q) == TRUE

\* VectorStore.search_memories, lines 158-165: threshold, then the filters;
\* an empty (or None) filter list is falsy and filters nothing
passes(memory, relevance, q) ==
    /\ relevance >= q.min_relevance
    /\ ~(q.memory_types # {} /\ memory.memory_type \notin q.memory_types)
    /\ ~(q.scopes # {} /\ memory.scope \notin q.scopes)
    /\ ~(q.tags # {} /\ ~\E t \in q.tags : t \in SeqToSet(memory.tags))

\* the results left in cache order
Unsorted(rs) == rs

\* results.sort(key=relevance_score, reverse=True): stable, descending
SortByRelevance(rs) ==
    LET rank(i) == Cardinality({j \in DOMAIN rs :
                        \/ rs[j].relevance_score > rs[i].relevance_score
                        \/ /\ rs[j].relevance_score = rs[i].relevance_score
                           /\ j < i}) + 1
    IN  [k \in DOMAIN rs |-> rs[CHOOSE i \in DOMAIN rs : rank(i) = k]]

\* VectorStore.search_memories(query) with query embedding qe
search_memories(cache, order, embs, q, qe) ==
    LET scored == [k \in DOMAIN order |->
                     [memory |-> cache[order[k]],
                      relevance_score |->
                          calculate_relevance(cache[order[k]], q.query, qe,
                                              embs[order[k]])]]
        kept == SelectSeq(scored,
                    LAMBDA r : passes(r.memory, r.relevance_score, q))
        sorted == SortByRelevance(kept)
    IN  IF order = <<>> THEN <<>>
        ELSE SubSeq(sorted, 1,
                    IF Len(sorted) < q.max_results THEN Len(sorted)
                    ELSE q.max_results)

\* VectorStore.search_memories, the body of one turn of its loop: the scored
\* entry appended to results when it passes, results unchanged otherwise
search_turn(results, memory, q, qe, me) ==
    LET relevance == calculate_relevance(memory, q.query, qe, me)
    IN  IF passes(memory, relevance, q)
        THEN Append(results, [memory |-> memory, relevance_score |-> relevance])
        ELSE results

\* VectorStore.search_memories after its loop: sort, and the first max_results
search_return(results, q) ==
    SubSeq(SortByRelevance(results), 1,
           IF Len(results) < q.max_results THEN Len(results)
           ELSE q.max_results)

\* ------------------------------------------------------------ reconcile
\* awaken, lines 56-60 of the method: every loaded memory whose id is not a
\* key of _memory_cache is stored in the vector store; ge[id] is what
\* _generate_embedding returns for it
RECURSIVE SyncFrom(_, _, _, _)
SyncFrom(all_memories, k, st, ge) ==
    IF k > Len(all_memories) THEN st
    ELSE LET memory == all_memories[k]
         IN  IF st.cache[memory.id] = NoMemory
             THEN SyncFrom(all_memories, k + 1,
                    [cache |-> vs_cache(st.cache, memory),
                     order |-> vs_order(st.cache, st.order, memory),
                     embs |-> vs_embeddings(st.embs, memory, ge[memory.id]),
                     synced_count |-> st.synced_count + 1], ge)
             ELSE SyncFrom(all_memories, k + 1, st, ge)

\* the loop without its membership test: every loaded memory is stored again
RECURSIVE SyncAllFrom(_, _, _, _)
SyncAllFrom(all_memories, k, st, ge) ==
    IF k > Len(all_memories) THEN st
    ELSE LET memory == all_memories[k]
         IN  SyncAllFrom(all_memories, k + 1,
                [cache |-> vs_cache(st.cache, memory),
                 order |-> vs_order(st.cache, st.order, memory),
                 embs |-> vs_embeddings(st.embs, memory, ge[memory.id]),
                 synced_count |-> st.synced_count + 1], ge)

awaken_sync_unguarded(f, cache, order, embs, ord, ge) ==
    SyncAllFrom(load_all_memories(f, ord), 1,
                [cache |-> cache, order |-> order, embs |-> embs,
                 synced_count |-> 0], ge)

\* the loop counting every loaded memory, synced or not
awaken_sync_counting_all(f, cache, order, embs, ord, ge) ==
    [SyncFrom(load_all_memories(f, ord), 1,
              [cache |-> cache, order |-> order, embs |-> embs,
               synced_count |-> 0], ge)
        EXCEPT !.synced_count = Len(load_all_memories(f, ord))]

awaken_sync(f, cache, order, embs, ord, ge) ==
    SyncFrom(load_all_memories(f, ord), 1,
             [cache |-> cache, order |-> order, embs |-> embs,
              synced_count |-> 0], ge)

\* _generate_embedding(memory): the provider encodes the text built from the
\* title, the content and the tags; the same text gives the same vector
TextEmbedding(memory) == <<Len(memory.title), Len(memory.content)>>

\* MemoryMCPServer.initialize_memory when it returns: a manager is created
\* and awakened only if there is none yet
initialize_memory(ord, ge) ==
    IF memory_manager.created
    THEN [cache |-> memory_cache, order |-> cache_order,
          embs |-> memory_embeddings, manager |-> memory_manager]
    ELSE LET st == awaken_sync(files, memory_cache, cache_order,
                               memory_embeddings, ord, ge)
         IN  [cache |-> st.cache, order |-> st.order, embs |-> st.embs,
              manager |-> [created |-> TRUE, awakened |-> TRUE]]

\* ----------------------------------------------------------------- Memory
Min(a, b) == IF b < a THEN b ELSE a
Max(a, b) == IF b > a THEN b ELSE a

\* the assignment without the clamp
update_importance_unclamped(memory, new_importance) ==
    [memory EXCEPT !.importance = new_importance]

\* Memory.update_importance: max(0.0, min(10.0, new_importance))
update_importance(memory, new_importance) ==
    [memory EXCEPT !.importance = Max(0, Min(10, new_importance))]

\* Memory.add_tag: appended only if not in the list
add_tag(memory, tag) ==
    IF tag \in SeqToSet(memory.tags) THEN memory
    ELSE [memory EXCEPT !.tags = Append(@, tag)]

\* ---------------------------------------------------------------- actions
Idle == pending = NoMemory

\* FileStore.store_memory called directly (update_memory, another writer):
\* a write path that does not index
Put(m) ==
    /\ Idle
    /\ writes < MaxWrites
    /\ files' = file_store_memory(files, m)
    /\ index' = update_index(index, m)
    /\ last' = [op |-> "put", arg |-> m, ret |-> "ok"]
    /\ deleted' = deleted \ {m.id}
    /\ reconciled' = FALSE
    /\ writes' = writes + 1
    /\ UNCHANGED <<memory_cache, cache_order, memory_embeddings, pending, corrupts>>
    /\ UNCHANGED <<in_upsert, removing, memory_manager>>
    /\ UNCHANGED <<in_put, in_query, record>>

\* engine store, first half: the durable put
StorePut(m) ==
    /\ Idle
    /\ writes < MaxWrites
    /\ files' = file_store_memory(files, m)
    /\ index' = update_index(index, m)
    /\ pending' = m
    /\ last' = [op |-> "store_put", arg |-> m, ret |-> "ok"]
    /\ deleted' = deleted \ {m.id}
    /\ reconciled' = FALSE
    /\ writes' = writes + 1
    /\ UNCHANGED <<memory_cache, cache_order, memory_embeddings, corrupts>>
    /\ UNCHANGED <<in_upsert, removing, memory_manager>>
    /\ UNCHANGED <<in_put, in_query, record>>

\* engine store, second half: the index upsert, then store returns the id
StoreIndex(e) ==
    /\ ~Idle
    /\ memory_cache' = vs_cache(memory_cache, pending)
    /\ cache_order' = vs_order(memory_cache, cache_order, pending)
    /\ memory_embeddings' = vs_embeddings(memory_embeddings, pending, e)
    /\ pending' = NoMemory
    /\ last' = [op |-> "store", arg |-> pending, ret |-> pending.id]
    /\ reconciled' = FALSE
    /\ UNCHANGED <<files, index, deleted, writes, corrupts>>
    /\ UNCHANGED <<in_upsert, removing, memory_manager>>
    /\ UNCHANGED <<in_put, in_query, record>>

\* FileStore.store_memory when one of its writes raises.  "open": the record
\* file cannot be opened, nothing is written, the exception is re-raised.
\* "dump": json.dump fails after open(..., 'w') truncated the file, the
\* exception is re-raised.  "index": the record file is written and
\* _update_index fails; _update_index catches the exception and logs a
\* warning, so store_memory returns normally
PutFault(m, fault) ==
    /\ Idle
    /\ writes < MaxWrites
    /\ files' = IF fault = "open" THEN files
                ELSE IF fault = "dump" THEN [files EXCEPT ![FileKey(m)] = BadFile]
                ELSE file_store_memory(files, m)
    /\ last' = [op |-> "put", arg |-> m,
                ret |-> IF fault = "index" THEN "ok" ELSE "error"]
    /\ deleted' = IF fault = "open" THEN deleted ELSE deleted \ {m.id}
    /\ reconciled' = FALSE
    /\ writes' = writes + 1
    /\ UNCHANGED <<index, memory_cache, cache_order, memory_embeddings,
                   pending, corrupts>>
    /\ UNCHANGED <<in_upsert, removing, memory_manager>>
    /\ UNCHANGED <<in_put, in_query, record>>

\* FileStore.delete_memory
Delete(id) ==
    /\ Idle
    /\ files' = delete_memory_files(files, id)
    /\ index' = IF delete_memory_found(files, id)
                THEN remove_from_index(index, id) ELSE index
    /\ last' = [op |-> "delete", arg |-> id,
                ret |-> delete_memory_found(files, id)]
    /\ deleted' = IF delete_memory_found(files, id)
                  THEN deleted \cup {id} ELSE deleted
    /\ reconciled' = FALSE
    /\ UNCHANGED <<memory_cache, cache_order, memory_embeddings, pending,
                   writes, corrupts>>
    /\ UNCHANGED <<in_upsert, removing, memory_manager>>
    /\ UNCHANGED <<in_put, in_query, record>>

\* FileStore.load_memory
Get(id) ==
    /\ Idle
    /\ last' = [op |-> "get", arg |-> id, ret |-> load_memory(files, id),
                put |-> IF last.op = "put" /\ last.arg.id = id
                        THEN last.arg ELSE NoMemory]
    /\ UNCHANGED <<files, index, memory_cache, cache_order, memory_embeddings,
                   pending, deleted, reconciled, writes, corrupts>>
    /\ UNCHANGED <<in_upsert, removing, memory_manager>>
    /\ UNCHANGED <<in_put, in_query, record>>

\* FileStore.load_all_memories
ListAll(ord) ==
    /\ Idle
    /\ last' = [op |-> "list_all", arg |-> ord,
                ret |-> load_all_memories(files, ord)]
    /\ UNCHANGED <<files, index, memory_cache, cache_order, memory_embeddings,
                   pending, deleted, reconciled, writes, corrupts>>
    /\ UNCHANGED <<in_upsert, removing, memory_manager>>
    /\ UNCHANGED <<in_put, in_query, record>>

\* awaken: the reconciliation loop
Awaken(ord, ge) ==
    /\ Idle
    /\ LET st == awaken_sync(files, memory_cache, cache_order,
                             memory_embeddings, ord, ge)
       IN  /\ memory_cache' = st.cache
           /\ cache_order' = st.order
           /\ memory_embeddings' = st.embs
           /\ last' = [op |-> "awaken",
                       arg |-> [fresh |-> cache_order = <<>>,
                                again |-> reconciled,
                                before |-> [cache |-> memory_cache,
                                            order |-> cache_order,
                                            embs |-> memory_embeddings],
                                stored |-> IF last.op = "store"
                                           THEN last.arg ELSE NoMemory],
                       ret |-> st.synced_count]
    /\ reconciled' = TRUE
    /\ UNCHANGED <<files, index, pending, deleted, writes, corrupts>>
    /\ UNCHANGED <<in_upsert, removing, memory_manager>>
    /\ UNCHANGED <<in_put, in_query, record>>

\* VectorStore.search_memories; qe is the query embedding obtained
Query(q, qe) ==
    /\ Idle
    /\ last' = [op |-> "query", arg |-> q,
                ret |-> search_memories(memory_cache, cache_order,
                                        memory_embeddings, q, qe),
                stored |-> IF last.op = "awaken"
                           THEN last.arg.stored ELSE NoMemory,
                qe |-> qe]
    /\ UNCHANGED <<files, index, memory_cache, cache_order, memory_embeddings,
                   pending, deleted, reconciled, writes, corrupts>>
    /\ UNCHANGED <<in_upsert, removing, memory_manager>>
    /\ UNCHANGED <<in_put, in_query, record>>

\* the process ends (possibly between the two halves of a store) and a new
\* one starts: VectorStore.__init__ gives empty dictionaries
Restart ==
    /\ memory_cache' = [id \in Ids |-> NoMemory]
    /\ cache_order' = <<>>
    /\ memory_embeddings' = [id \in Ids |-> NoVec]
    /\ pending' = NoMemory
    /\ last' = [op |-> "restart", arg |-> "none", ret |-> "none"]
    /\ reconciled' = FALSE
    /\ in_upsert' = [w \in Writers |-> NoMemory]
    /\ removing' = "none"
    /\ memory_manager' = NoManager
    /\ UNCHANGED <<files, index, deleted, writes, corrupts>>
    /\ in_put' = [w \in Writers |-> NoMemory]
    /\ in_query' = NoQuery
    /\ UNCHANGED record

\* a record file is damaged (a partial write): it no longer deserializes
Corrupt(key) ==
    /\ Idle
    /\ corrupts < MaxCorrupt
    /\ files[key] # NoFile
    /\ files[key] # BadFile
    /\ files' = [files EXCEPT ![key] = BadFile]
    /\ corrupts' = corrupts + 1
    /\ last' = [op |-> "corrupt", arg |-> key, ret |-> "none"]
    /\ UNCHANGED <<index, memory_cache, cache_order, memory_embeddings,
                   pending, deleted, reconciled, writes>>
    /\ UNCHANGED <<in_upsert, removing, memory_manager>>
    /\ UNCHANGED <<in_put, in_query, record>>

\* VectorStore.store_memory called on its own
Upsert(m, e) ==
    /\ Idle
    /\ memory_cache' = vs_cache(memory_cache, m)
    /\ cache_order' = vs_order(memory_cache, cache_order, m)
    /\ memory_embeddings' = vs_embeddings(memory_embeddings, m, e)
    /\ last' = [op |-> "upsert", arg |-> m.id, ret |-> "none"]
    /\ reconciled' = FALSE
    /\ UNCHANGED <<files, index, pending, deleted, writes, corrupts>>
    /\ UNCHANGED <<in_upsert, removing, memory_manager>>
    /\ UNCHANGED <<in_put, in_query, record>>

\* VectorStore.store_memory by writer w, up to the call of
\* _generate_embedding: line 114 has cached the Memory
BeginUpsert(w, m) ==
    /\ in_upsert[w] = NoMemory
    /\ memory_cache' = vs_cache(memory_cache, m)
    /\ cache_order' = vs_order(memory_cache, cache_order, m)
    /\ in_upsert' = [in_upsert EXCEPT ![w] = m]
    /\ last' = [op |-> "upsert_begin", arg |-> m.id, ret |-> "none"]
    /\ reconciled' = FALSE
    /\ UNCHANGED <<files, index, memory_embeddings, pending, deleted, writes,
                   corrupts, removing, memory_manager>>
    /\ UNCHANGED <<in_put, in_query, record>>

\* one pass of the loop of awaken run by writer w: a loaded memory whose id
\* is not cached is handed to VectorStore.store_memory
SyncBegin(w, ord) ==
    /\ in_upsert[w] = NoMemory
    /\ \E k \in DOMAIN load_all_memories(files, ord) :
          LET memory == load_all_memories(files, ord)[k]
          IN  /\ memory_cache[memory.id] = NoMemory
              /\ memory_cache' = vs_cache(memory_cache, memory)
              /\ cache_order' = vs_order(memory_cache, cache_order, memory)
              /\ in_upsert' = [in_upsert EXCEPT ![w] = memory]
              /\ last' = [op |-> "sync_begin", arg |-> memory.id, ret |-> "none"]
    /\ reconciled' = FALSE
    /\ UNCHANGED <<files, index, memory_embeddings, pending, deleted, writes,
                   corrupts, removing, memory_manager>>
    /\ UNCHANGED <<in_put, in_query, record>>

\* the rest of VectorStore.store_memory by writer w: the embedding generated
\* for the Memory it was called with is written (lines 117-119)
FinishUpsert(w) ==
    /\ in_upsert[w] # NoMemory
    /\ memory_embeddings' = vs_embeddings(memory_embeddings, in_upsert[w],
                                           TextEmbedding(in_upsert[w]))
    /\ in_upsert' = [in_upsert EXCEPT ![w] = NoMemory]
    /\ last' = [op |-> "upsert_end", arg |-> in_upsert[w].id, ret |-> "none"]
    /\ UNCHANGED <<files, index, memory_cache, cache_order, pending, deleted,
                   reconciled, writes, corrupts, removing, memory_manager>>
    /\ UNCHANGED <<in_put, in_query, record>>

\* engine delete, first half: the entry is evicted from the Search Index
EngineDeleteIndex(id) ==
    /\ Idle
    /\ removing = "none"
    /\ memory_cache[id] # NoMemory
    /\ memory_cache' = [memory_cache EXCEPT ![id] = NoMemory]
    /\ cache_order' = SelectSeq(cache_order, LAMBDA x : x # id)
    /\ memory_embeddings' = [memory_embeddings EXCEPT ![id] = NoVec]
    /\ removing' = id
    /\ deleted' = deleted \cup {id}
    /\ last' = [op |-> "remove", arg |-> id, ret |-> "none"]
    /\ reconciled' = FALSE
    /\ UNCHANGED <<files, index, pending, writes, corrupts, in_upsert,
                   memory_manager>>
    /\ UNCHANGED <<in_put, in_query, record>>

\* engine delete, second half: FileStore.delete_memory, then delete returns
EngineDeleteDurable ==
    /\ removing # "none"
    /\ files' = delete_memory_files(files, removing)
    /\ index' = IF delete_memory_found(files, removing)
                THEN remove_from_index(index, removing) ELSE index
    /\ removing' = "none"
    /\ last' = [op |-> "delete", arg |-> removing,
                ret |-> delete_memory_found(files, removing)]
    /\ reconciled' = FALSE
    /\ UNCHANGED <<memory_cache, cache_order, memory_embeddings, pending,
                   deleted, writes, corrupts, in_upsert, memory_manager>>
    /\ UNCHANGED <<in_put, in_query, record>>

\* MemoryMCPServer.handle_request("tools/list")
ListTools ==
    /\ last' = [op |-> "tools/list", arg |-> "none", ret |-> "tools"]
    /\ UNCHANGED <<files, index, memory_cache, cache_order, memory_embeddings,
                   pending, deleted, reconciled, writes, corrupts, in_upsert,
                   removing, memory_manager>>
    /\ UNCHANGED <<in_put, in_query, record>>

\* MemoryMCPServer.call_tool when initialize_memory raises.  ctor: the
\* MemoryManager constructor raises and self.memory_manager stays None.
\* Otherwise the manager is assigned and its awaken raises, before (synced
\* FALSE) or after (synced TRUE) its sync loop; handle_request turns the
\* exception into an error response
CallToolInitFails(ctor, synced, ord, ge) ==
    /\ Idle
    /\ ~memory_manager.created
    /\ LET st == IF ~ctor /\ synced
                 THEN awaken_sync(files, memory_cache, cache_order,
                                  memory_embeddings, ord, ge)
                 ELSE [cache |-> memory_cache, order |-> cache_order,
                       embs |-> memory_embeddings, synced_count |-> 0]
       IN  /\ memory_cache' = st.cache
           /\ cache_order' = st.order
           /\ memory_embeddings' = st.embs
    /\ memory_manager' = IF ctor THEN memory_manager
                         ELSE [created |-> TRUE, awakened |-> FALSE]
    /\ last' = [op |-> "tools/call", arg |-> "initialize_memory", ret |-> "error"]
    /\ reconciled' = FALSE
    /\ UNCHANGED <<files, index, pending, deleted, writes, corrupts, in_upsert,
                   removing>>
    /\ UNCHANGED <<in_put, in_query, record>>

\* MemoryMCPServer.call_tool("memory_recall") when initialize_memory returns:
\* the manager is created and awakened only if self.memory_manager was None;
\* an empty query is refused before the manager is called
CallRecall(q, qe, ord, ge) ==
    /\ Idle
    /\ LET st == initialize_memory(ord, ge)
       IN  /\ memory_cache' = st.cache
           /\ cache_order' = st.order
           /\ memory_embeddings' = st.embs
           /\ memory_manager' = st.manager
           /\ last' = [op |-> "memory_recall", arg |-> q,
                       ret |-> IF q.query = <<>> THEN <<>>
                               ELSE search_memories(st.cache, st.order, st.embs,
                                                    q, qe),
                       reached |-> q.query # <<>>,
                       awakened |-> st.manager.awakened,
                       stored |-> NoMemory, qe |-> qe]
    /\ UNCHANGED <<files, index, pending, deleted, reconciled, writes, corrupts,
                   in_upsert, removing>>
    /\ UNCHANGED <<in_put, in_query, record>>

\* MemoryMCPServer.call_tool("memory_remember") when initialize_memory
\* returns; remember is the engine store: durable put, then index upsert
CallRemember(m, e, ord, ge) ==
    /\ Idle
    /\ writes < MaxWrites
    /\ LET st == initialize_memory(ord, ge)
       IN  /\ memory_cache' = vs_cache(st.cache, m)
           /\ cache_order' = vs_order(st.cache, st.order, m)
           /\ memory_embeddings' = vs_embeddings(st.embs, m, e)
           /\ memory_manager' = st.manager
           /\ last' = [op |-> "memory_remember", arg |-> m, ret |-> m.id,
                       reached |-> TRUE, awakened |-> st.manager.awakened]
    /\ files' = file_store_memory(files, m)
    /\ index' = update_index(index, m)
    /\ deleted' = deleted \ {m.id}
    /\ reconciled' = FALSE
    /\ writes' = writes + 1
    /\ UNCHANGED <<pending, corrupts, in_upsert, removing>>
    /\ UNCHANGED <<in_put, in_query, record>>

\* MemoryMCPServer.call_tool("memory_status") when initialize_memory returns:
\* tool_memory_status calls awaken again, which returns (ok) or raises
CallStatus(ok, ord, ge) ==
    /\ Idle
    /\ LET st0 == initialize_memory(ord, ge)
           st == IF ok THEN awaken_sync(files, st0.cache, st0.order, st0.embs,
                                        ord, ge)
                 ELSE st0
       IN  /\ memory_cache' = st.cache
           /\ cache_order' = st.order
           /\ memory_embeddings' = st.embs
           /\ memory_manager' = IF ok THEN [created |-> TRUE, awakened |-> TRUE]
                                ELSE st0.manager
           /\ last' = [op |-> "memory_status", arg |-> "none",
                       ret |-> IF ok THEN "status" ELSE "error"]
    /\ UNCHANGED <<files, index, pending, deleted, reconciled, writes, corrupts,
                   in_upsert, removing>>
    /\ UNCHANGED <<in_put, in_query, record>>

\* VectorStore._calculate_keyword_relevance applied to the inputs drawn
\* initially
CalculateKeywordRelevance ==
    /\ last.op = "lexical_input"
    /\ last' = [op |-> "keyword_relevance", arg |-> last.arg,
                ret |-> calculate_keyword_relevance(last.arg.memory,
                                                    last.arg.query)]
    /\ UNCHANGED <<files, index, memory_cache, cache_order, memory_embeddings,
                   pending, deleted, reconciled, writes, corrupts, in_upsert,
                   removing, memory_manager, in_put, in_query, record>>

\* the score and the match reasons search_memories gives one cached entry
\* (lines 155 and 170), on the inputs drawn initially
GetMatchReasons ==
    /\ last.op = "reasons_input"
    /\ last' = [op |-> "match_reasons", arg |-> last.arg,
                ret |-> get_match_reasons(last.arg.memory, last.arg.query,
                                          last.arg.model, last.arg.me),
                relevance |-> calculate_relevance(last.arg.memory,
                                  last.arg.query, last.arg.qe, last.arg.me)]
    /\ UNCHANGED <<files, index, memory_cache, cache_order, memory_embeddings,
                   pending, deleted, reconciled, writes, corrupts, in_upsert,
                   removing, memory_manager, in_put, in_query, record>>

\* VectorStore.store_memory where the provider, when it answers (ok), gives
\* the embedding of the text of the Memory it is called with
UpsertText(m, ok) ==
    /\ Idle
    /\ memory_cache' = vs_cache(memory_cache, m)
    /\ cache_order' = vs_order(memory_cache, cache_order, m)
    /\ memory_embeddings' = vs_embeddings(memory_embeddings, m,
                                IF ok THEN TextEmbedding(m) ELSE NoVec)
    /\ last' = [op |-> "upsert", arg |-> m.id, ret |-> "none"]
    /\ reconciled' = FALSE
    /\ UNCHANGED <<files, index, pending, deleted, writes, corrupts, in_upsert,
                   removing, memory_manager, in_put, in_query, record>>

\* FileStore.store_memory run by writer w beside another writer of the same
\* storage directory, in its three file operations. First the record file.
PutStoreFile(w, m) ==
    /\ in_put[w] = NoMemory
    /\ writes < MaxWrites
    /\ files' = file_store_memory(files, m)
    /\ in_put' = [in_put EXCEPT ![w] = [stage |-> "file", memory |-> m,
                                        index |-> index]]
    /\ deleted' = deleted \ {m.id}
    /\ reconciled' = FALSE
    /\ writes' = writes + 1
    /\ UNCHANGED <<index, memory_cache, cache_order, memory_embeddings, pending,
                   last, corrupts, in_upsert, removing, memory_manager,
                   in_query, record>>

\* FileStore._update_index: json.load of the scope's index file
PutLoadIndex(w) ==
    /\ in_put[w] # NoMemory
    /\ in_put[w].stage = "file"
    /\ in_put' = [in_put EXCEPT ![w] = [stage |-> "loaded",
                                        memory |-> in_put[w].memory,
                                        index |-> index]]
    /\ UNCHANGED <<files, index, memory_cache, cache_order, memory_embeddings,
                   pending, last, deleted, reconciled, writes, corrupts,
                   in_upsert, removing, memory_manager, in_query, record>>

\* FileStore._update_index: the loaded index, with this record's entry set,
\* written over the scope's index file; store_memory returns
PutWriteIndex(w) ==
    /\ in_put[w] # NoMemory
    /\ in_put[w].stage = "loaded"
    /\ index' = [index EXCEPT ![in_put[w].memory.scope] =
                     update_index(in_put[w].index,
                                  in_put[w].memory)[in_put[w].memory.scope]]
    /\ in_put' = [in_put EXCEPT ![w] = NoMemory]
    /\ last' = [op |-> "put", arg |-> in_put[w].memory, ret |-> "ok"]
    /\ UNCHANGED <<files, memory_cache, cache_order, memory_embeddings, pending,
                   deleted, reconciled, writes, corrupts, in_upsert, removing,
                   memory_manager, in_query, record>>

\* VectorStore.search_memories run beside a writer of the Search Index, in the
\* steps of its loop.  First the test for an empty cache, and the query
\* embedding; before holds the Search Index as the query found it.
QueryBegin(q, qe) ==
    /\ Idle
    /\ in_query = NoQuery
    /\ IF cache_order = <<>>
       THEN /\ last' = [op |-> "query", arg |-> q, ret |-> <<>>, qe |-> qe,
                        before |-> [cache |-> memory_cache,
                                    embs |-> memory_embeddings]]
            /\ UNCHANGED in_query
       ELSE /\ in_query' = [kind |-> "embedding", arg |-> q, qe |-> qe,
                            before |-> [cache |-> memory_cache,
                                        embs |-> memory_embeddings]]
            /\ UNCHANGED last
    /\ UNCHANGED <<files, index, memory_cache, cache_order, memory_embeddings,
                   pending, deleted, reconciled, writes, corrupts, in_upsert,
                   removing, memory_manager, in_put, record>>

\* self._memory_cache.items(): the iterator notes the size of the dictionary
QueryItems ==
    /\ in_query.kind = "embedding"
    /\ in_query' = [kind |-> "loop", arg |-> in_query.arg, qe |-> in_query.qe,
                    before |-> in_query.before, used |-> Len(cache_order),
                    pos |-> 1, results |-> <<>>]
    /\ UNCHANGED <<files, index, memory_cache, cache_order, memory_embeddings,
                   pending, last, deleted, reconciled, writes, corrupts,
                   in_upsert, removing, memory_manager, in_put, record>>

\* one next() of the iterator: RuntimeError when the dictionary changed size,
\* which the except clause turns into []; the sorted results when the
\* iterator is exhausted; otherwise one turn of the loop on the entry as it
\* is now
QueryNext ==
    /\ in_query.kind = "loop"
    /\ IF Len(cache_order) # in_query.used
       THEN /\ last' = [op |-> "query", arg |-> in_query.arg, ret |-> <<>>,
                        qe |-> in_query.qe, before |-> in_query.before]
            /\ in_query' = NoQuery
       ELSE IF in_query.pos > Len(cache_order)
       THEN /\ last' = [op |-> "query", arg |-> in_query.arg,
                        ret |-> search_return(in_query.results, in_query.arg),
                        qe |-> in_query.qe, before |-> in_query.before]
            /\ in_query' = NoQuery
       ELSE /\ in_query' =
                   [in_query EXCEPT
                       !.pos = @ + 1,
                       !.results =
                           search_turn(@, memory_cache[cache_order[in_query.pos]],
                                       in_query.arg, in_query.qe,
                                       memory_embeddings[cache_order[in_query.pos]])]
            /\ UNCHANGED last
    /\ UNCHANGED <<files, index, memory_cache, cache_order, memory_embeddings,
                   pending, deleted, reconciled, writes, corrupts, in_upsert,
                   removing, memory_manager, in_put, record>>

\* Memory(...): tags is a List[str] taken as given; importance is validated
\* by Field(ge=0.0, le=10.0), so a value outside the range raises and no
\* Memory is created
CreateMemory(tags, importance) ==
    /\ importance >= 0
    /\ importance <= 10
    /\ record' = Mem("m1", "global", "semantic", <<"a">>, <<"a">>, tags,
                     importance, <<>>)
    /\ last' = [op |-> "create", arg |-> tags, ret |-> "none"]
    /\ UNCHANGED <<files, index, memory_cache, cache_order, memory_embeddings,
                   pending, deleted, reconciled, writes, corrupts, in_upsert,
                   removing, memory_manager, in_put, in_query>>

\* Memory.update_importance
UpdateImportance(new_importance) ==
    /\ record # NoMemory
    /\ record' = update_importance(record, new_importance)
    /\ last' = [op |-> "update_importance", arg |-> new_importance,
                ret |-> "none"]
    /\ UNCHANGED <<files, index, memory_cache, cache_order, memory_embeddings,
                   pending, deleted, reconciled, writes, corrupts, in_upsert,
                   removing, memory_manager, in_put, in_query>>

\* Memory.add_tag; before holds the tags the call found
AddTag(tag) ==
    /\ record # NoMemory
    /\ record' = add_tag(record, tag)
    /\ last' = [op |-> "add_tag", arg |-> tag, ret |-> "none",
                before |-> record.tags]
    /\ UNCHANGED <<files, index, memory_cache, cache_order, memory_embeddings,
                   pending, deleted, reconciled, writes, corrupts, in_upsert,
                   removing, memory_manager, in_put, in_query>>

\* VectorStore._calculate_relevance applied to the inputs drawn initially
CalculateRelevance ==
    /\ last.op = "input"
    /\ last' = [op |-> "relevance", arg |-> last.arg,
                ret |-> calculate_relevance(last.arg.memory, last.arg.query,
                                            last.arg.qe, last.arg.me)]
    /\ UNCHANGED <<files, index, memory_cache, cache_order, memory_embeddings,
                   pending, deleted, reconciled, writes, corrupts>>
    /\ UNCHANGED <<in_upsert, removing, memory_manager>>
    /\ UNCHANGED <<in_put, in_query, record>>

\* FileStore.__init__ on an empty directory tree, VectorStore.__init__
Init ==
    /\ files = [k \in FileKeys |-> NoFile]
    /\ index = [s \in SeqToSet(MemoryScope) |-> [id \in Ids |-> NoEntry]]
    /\ memory_cache = [id \in Ids |-> NoMemory]
    /\ cache_order = <<>>
    /\ memory_embeddings = [id \in Ids |-> NoVec]
    /\ pending = NoMemory
    /\ last = [op |-> "init", arg |-> "none", ret |-> "none"]
    /\ deleted = {}
    /\ reconciled = FALSE
    /\ writes = 0
    /\ corrupts = 0
    /\ in_upsert = [w \in Writers |-> NoMemory]
    /\ removing = "none"
    /\ memory_manager = NoManager
    /\ in_put = [w \in Writers |-> NoMemory]
    /\ in_query = NoQuery
    /\ record = NoMemory

\* ----------------------------------------------------------------- inputs
DefaultMaxResults == 5          \* MemoryQuery.max_results
DefaultMinRelevance == 42000    \* MemoryQuery.min_relevance, 0.7 * Unit

\* what _generate_embedding / the query encoder may return: nothing (provider
\* unavailable) or a vector
EmbedResults == {NoVec, <<1, 0>>}
QueryEmbeddings == {NoVec, <<1, 0>>}

PutTypes == {"working", "semantic"}

\* records of the engine runs: one per (id, scope); the id fixes the rest
EngineRec(id, scope) ==
    IF id = "m1"
    THEN Mem(id, scope, "semantic", <<"A", " ", "b">>, <<"b">>, << <<"a">> >>, 10, <<>>)
    ELSE Mem(id, scope, "working", <<"B">>, <<"a">>, <<>>, 0, <<>>)
EngineRecords ==
    {EngineRec(id, scope) : id \in Ids, scope \in SeqToSet(MemoryScope)}

\* records of the Durable Store runs: two contents per file
StoreRecords ==
    {Mem(id, scope, type, title, <<"a">>, <<>>, 5, <<>>) :
        id \in Ids, scope \in SeqToSet(MemoryScope), type \in PutTypes,
        title \in {<<"a">>, <<"B">>}}

MkQuery(text, types, scopes, tags, max_results, min_relevance) ==
    [query |-> text, memory_types |-> types, scopes |-> scopes, tags |-> tags,
     max_results |-> max_results, min_relevance |-> min_relevance]

\* one filter at a time, or none: <<memory_types, scopes, tags>>
FilterProfiles ==
    {<<{}, {}, {}>>, <<{"semantic"}, {}, {}>>, <<{}, {"global"}, {}>>,
     <<{}, {}, {<<"a">>, <<"b">>}>>, <<{}, {}, {<<"b">>}>>}

\* queries of the engine runs: the title of m1 as the text, no filter
EngineQueries ==
    {MkQuery(<<"A", " ", "b">>, {}, {}, {}, DefaultMaxResults, mr) :
        mr \in {0, DefaultMinRelevance}}

\* queries of the filter runs
FilterQueries ==
    {MkQuery(<<"A", " ", "b">>, fp[1], fp[2], fp[3], mx, mr) :
        fp \in FilterProfiles,
        mx \in {1, DefaultMaxResults},
        mr \in {0, DefaultMinRelevance}}

EmbedChoices == [Ids -> EmbedResults]

\* records of the filter runs: every scope and two types; m1 carries a tag
FilterRecords ==
    {Mem(id, scope, type, <<"A", " ", "b">>, <<"b">>,
         IF id = "m1" THEN << <<"a">> >> ELSE <<>>,
         IF type = "semantic" THEN 10 ELSE 0, <<>>) :
        id \in Ids, scope \in SeqToSet(MemoryScope), type \in PutTypes}

\* inputs of the scoring runs
ScoreMemories ==
    {Mem("m1", "global", "semantic", title, content, tags, importance, context) :
        title \in {<<"A", " ", "b">>, <<"B">>},
        content \in {<<"b">>, <<"a", " ", "b", " ", "a">>},
        tags \in {<<>>, << <<"a">> >>},
        importance \in {0, 5, 10},
        context \in {<<>>, << <<"B", "a">> >>}}
ScoreTexts == {<<>>, <<"a">>, <<"a", " ", "B">>, <<"b", " ", "a", " ", "A">>}
ScoreQueryVectors == {NoVec, <<1, 0>>, <<3, 4>>}
ScoreMemoryVectors == {NoVec, <<1, 0>>, <<-1, 0>>, <<4, 3>>, <<0, 0>>, <<1>>}

\* records of the ranking runs: Memory.created_at is kept as well.  m1 always
\* matches the query text "A b"; m2 either is a copy of it or shares nothing
\* with it
RankRec(id, title, content, importance, created_at) ==
    Mem(id, "global", "semantic", title, content, <<>>, importance, <<>>)
        @@ [created_at |-> created_at]
RankTexts == {<< <<"A", " ", "b">>, <<"A", " ", "b">> >>,
              << <<"A", " ", "b">>, <<"c">> >>,
              << <<"c">>, <<"c", " ", "d">> >>}
RankRecords ==
    {RankRec(id, tc[1], tc[2], importance, created_at) :
        id \in Ids, tc \in RankTexts, importance \in {0, 5, 10},
        created_at \in {1, 2}} \
    {RankRec("m1", <<"c">>, <<"c", " ", "d">>, importance, created_at) :
        importance \in {0, 5, 10}, created_at \in {1, 2}}
RankQueries ==
    {MkQuery(<<"A", " ", "b">>, {}, {}, {}, DefaultMaxResults, 0)}

\* records of the concurrent runs: two versions of m1 and one m2
ConcRecords ==
    {Mem("m1", "global", "semantic", <<"a">>, <<"a">>, <<>>, 5, <<>>),
     Mem("m1", "global", "semantic", <<"A", " ", "b">>, <<"b">>, <<>>, 5, <<>>),
     Mem("m2", "global", "working", <<"B">>, <<"a">>, <<>>, 5, <<>>)}

\* tool_memory_recall: max_results and min_relevance when not given
RecallMaxResults == 3
RecallMinRelevance == 6000
RecallQueries ==
    {MkQuery(text, {}, {}, {}, RecallMaxResults, RecallMinRelevance) :
        text \in {<<>>, <<"A", " ", "b">>}}

\* inputs of the lexical runs: several tags and context values, mixed case
LexMemories ==
    {Mem("m1", "global", "semantic", title, content, tags, 5, context) :
        title \in {<<"A", " ", "b">>, <<"B">>},
        content \in {<<"b">>, <<"a", " ", "b", " ", "a">>},
        tags \in {<<>>, << <<"A">> >>, << <<"a">>, <<"A", " ", "b">> >>,
                  << <<"b">>, <<"B">> >>},
        context \in {<<>>, << <<"B", "a">> >>,
                     << <<"a", " ", "b">>, <<"A", "b">> >>}}
LexTexts == {<<>>, <<"a">>, <<"B">>, <<"a", " ", "B">>,
             <<"b", " ", "a", " ", "A">>, <<"c", " ", "a">>}

\* inputs of the match-reason runs.  The local model and the remote API are
\* independent sources of embeddings: a query or a record may have one
\* whether or not the local model is loaded
ReasonMemories ==
    {Mem("m1", "global", "semantic", <<"A", " ", "b">>, content, tags,
         importance, <<>>) :
        content \in {<<"b">>, <<"c">>},
        tags \in {<<>>, << <<"c">>, <<"a">> >>},
        importance \in {0, 7, 10}}
ReasonTexts == {<<"a">>, <<"c">>}
ReasonVectors == {NoVec, <<1, 0>>, <<-1, 0>>}

\* records of the update runs: four texts per identifier, each with its own
\* embedding
UpdateRecords ==
    {Mem(id, "global", "semantic", title, content, <<>>, 5, <<>>) :
        id \in Ids, title \in {<<"a">>, <<"A", " ", "b">>},
        content \in {<<"a">>, <<"b", " ", "a">>}}

\* records of the concurrent puts
ConcPutRecords ==
    {Mem(id, scope, "semantic", title, <<"a">>, <<>>, 5, <<>>) :
        id \in Ids, scope \in SeqToSet(MemoryScope),
        title \in {<<"a">>, <<"B">>}}

\* inputs of the record runs: tag lists as a caller may give them, importance
\* values inside and outside the range, on both sides
RecordTags == {<<"a">>, <<"b">>, <<"c">>}
RecordTagLists ==
    {<<>>, << <<"a">> >>, << <<"a">>, <<"b">> >>, << <<"a">>, <<"a">> >>}
RecordImportances == -3 .. 13

\* the writes of FileStore.store_memory that may raise
PutFaults == {"open", "dump", "index"}

\* ---------------------------------------------------------- specifications
\* the engine: store, direct put, delete, reconcile, query, restart
Next ==
    \/ \E m \in EngineRecords : Put(m)
    \/ \E m \in EngineRecords : StorePut(m)
    \/ \E e \in EmbedResults : StoreIndex(e)
    \/ \E id \in Ids : Delete(id)
    \/ \E ord \in GlobOrders, ge \in EmbedChoices : Awaken(ord, ge)
    \/ \E q \in EngineQueries, qe \in QueryEmbeddings : Query(q, qe)
    \/ \E k \in FileKeys : Corrupt(k)
    \/ Restart

Spec == Init /\ [][Next]_vars

\* the Durable Store alone
NextStore ==
    \/ \E m \in StoreRecords : Put(m)
    \/ \E id \in Ids : Delete(id)
    \/ \E id \in Ids : Get(id)
    \/ \E ord \in GlobOrders : ListAll(ord)
    \/ \E k \in FileKeys : Corrupt(k)

SpecStore == Init /\ [][NextStore]_vars

\* the Search Index alone: upserts and filtered queries
NextQuery ==
    \/ \E m \in FilterRecords, e \in EmbedResults : Upsert(m, e)
    \/ \E q \in FilterQueries, qe \in QueryEmbeddings : Query(q, qe)

SpecQuery == Init /\ [][NextQuery]_vars

\* the scoring function on drawn inputs
InitScore ==
    /\ files = [k \in FileKeys |-> NoFile]
    /\ index = [s \in SeqToSet(MemoryScope) |-> [id \in Ids |-> NoEntry]]
    /\ memory_cache = [id \in Ids |-> NoMemory]
    /\ cache_order = <<>>
    /\ memory_embeddings = [id \in Ids |-> NoVec]
    /\ pending = NoMemory
    /\ last \in {[op |-> "input",
                   arg |-> [memory |-> m, query |-> t, qe |-> qe, me |-> me],
                   ret |-> "none"] :
                      m \in ScoreMemories, t \in ScoreTexts,
                      qe \in ScoreQueryVectors, me \in ScoreMemoryVectors}
    /\ deleted = {}
    /\ reconciled = FALSE
    /\ writes = 0
    /\ corrupts = 0
    /\ in_upsert = [w \in Writers |-> NoMemory]
    /\ removing = "none"
    /\ memory_manager = NoManager
    /\ in_put = [w \in Writers |-> NoMemory]
    /\ in_query = NoQuery
    /\ record = NoMemory

NextScore == CalculateRelevance

SpecScore == InitScore /\ [][NextScore]_vars

\* the Search Index alone: upserts and unfiltered queries, for the ranking
NextRank ==
    \/ \E m \in RankRecords, e \in EmbedResults : Upsert(m, e)
    \/ \E q \in RankQueries, qe \in QueryEmbeddings : Query(q, qe)

SpecRank == Init /\ [][NextRank]_vars

\* the Durable Store with failing writes
NextFault ==
    \/ \E m \in StoreRecords : Put(m)
    \/ \E m \in StoreRecords, fault \in PutFaults : PutFault(m, fault)
    \/ \E id \in Ids : Delete(id)
    \/ \E id \in Ids : Get(id)

SpecFault == Init /\ [][NextFault]_vars

\* two writers of the Search Index and the reconcile loop, interleaved
NextConc ==
    \/ \E m \in ConcRecords : Put(m)
    \/ \E w \in Writers, m \in ConcRecords : BeginUpsert(w, m)
    \/ \E w \in Writers, ord \in GlobOrders : SyncBegin(w, ord)
    \/ \E w \in Writers : FinishUpsert(w)

SpecConc == Init /\ [][NextConc]_vars

\* the engine with its delete: index eviction, then durable removal
NextDelete ==
    \/ \E m \in EngineRecords : Put(m)
    \/ \E id \in Ids : EngineDeleteIndex(id)
    \/ EngineDeleteDurable
    \/ \E ord \in GlobOrders, ge \in EmbedChoices : Awaken(ord, ge)

SpecDelete == Init /\ [][NextDelete]_vars

\* the MCP server in front of the engine
NextServer ==
    \/ \E m \in EngineRecords : Put(m)
    \/ ListTools
    \/ \E ctor \in BOOLEAN, synced \in BOOLEAN, ord \in GlobOrders,
          ge \in EmbedChoices : CallToolInitFails(ctor, synced, ord, ge)
    \/ \E q \in RecallQueries, qe \in QueryEmbeddings, ord \in GlobOrders,
          ge \in EmbedChoices : CallRecall(q, qe, ord, ge)
    \/ \E m \in EngineRecords, e \in EmbedResults, ord \in GlobOrders,
          ge \in EmbedChoices : CallRemember(m, e, ord, ge)
    \/ \E ok \in BOOLEAN, ord \in GlobOrders, ge \in EmbedChoices :
          CallStatus(ok, ord, ge)
    \/ Restart

SpecServer == Init /\ [][NextServer]_vars

\* the lexical score on drawn inputs
InitLexical ==
    /\ files = [k \in FileKeys |-> NoFile]
    /\ index = [s \in SeqToSet(MemoryScope) |-> [id \in Ids |-> NoEntry]]
    /\ memory_cache = [id \in Ids |-> NoMemory]
    /\ cache_order = <<>>
    /\ memory_embeddings = [id \in Ids |-> NoVec]
    /\ pending = NoMemory
    /\ last \in {[op |-> "lexical_input",
                   arg |-> [memory |-> m, query |-> t], ret |-> "none"] :
                      m \in LexMemories, t \in LexTexts}
    /\ deleted = {}
    /\ reconciled = FALSE
    /\ writes = 0
    /\ corrupts = 0
    /\ in_upsert = [w \in Writers |-> NoMemory]
    /\ removing = "none"
    /\ memory_manager = NoManager
    /\ in_put = [w \in Writers |-> NoMemory]
    /\ in_query = NoQuery
    /\ record = NoMemory

NextLexical == CalculateKeywordRelevance

SpecLexical == InitLexical /\ [][NextLexical]_vars

\* the match reasons on drawn inputs
InitReasons ==
    /\ files = [k \in FileKeys |-> NoFile]
    /\ index = [s \in SeqToSet(MemoryScope) |-> [id \in Ids |-> NoEntry]]
    /\ memory_cache = [id \in Ids |-> NoMemory]
    /\ cache_order = <<>>
    /\ memory_embeddings = [id \in Ids |-> NoVec]
    /\ pending = NoMemory
    /\ last \in {[op |-> "reasons_input",
                   arg |-> [memory |-> m, query |-> t, qe |-> qe, me |-> me,
                            model |-> model],
                   ret |-> "none"] :
                      m \in ReasonMemories, t \in ReasonTexts,
                      qe \in ReasonVectors, me \in ReasonVectors,
                      model \in BOOLEAN}
    /\ deleted = {}
    /\ reconciled = FALSE
    /\ writes = 0
    /\ corrupts = 0
    /\ in_upsert = [w \in Writers |-> NoMemory]
    /\ removing = "none"
    /\ memory_manager = NoManager
    /\ in_put = [w \in Writers |-> NoMemory]
    /\ in_query = NoQuery
    /\ record = NoMemory

NextReasons == GetMatchReasons

SpecReasons == InitReasons /\ [][NextReasons]_vars

\* the Search Index under repeated upserts of changing records
NextUpdate ==
    \E m \in UpdateRecords, ok \in BOOLEAN : UpsertText(m, ok)

SpecUpdate == Init /\ [][NextUpdate]_vars

\* two writers of the Durable Store, interleaved
NextConcPut ==
    \/ \E w \in Writers, m \in ConcPutRecords : PutStoreFile(w, m)
    \/ \E w \in Writers : PutLoadIndex(w)
    \/ \E w \in Writers : PutWriteIndex(w)

SpecConcPut == Init /\ [][NextConcPut]_vars

\* a query in the steps of its loop, and a writer of the Search Index
NextConcQuery ==
    \/ \E m \in ConcRecords, e \in EmbedResults : Upsert(m, e)
    \/ \E q \in EngineQueries, qe \in QueryEmbeddings : QueryBegin(q, qe)
    \/ QueryItems
    \/ QueryNext

SpecConcQuery == Init /\ [][NextConcQuery]_vars

\* the Durable Store under puts and deletes that all succeed
NextPutDelete ==
    \/ \E m \in StoreRecords : Put(m)
    \/ \E id \in Ids : Delete(id)

SpecPutDelete == Init /\ [][NextPutDelete]_vars

\* one Memory object: creation and its two mutators
NextRecord ==
    \/ \E tags \in RecordTagLists, importance \in RecordImportances :
          CreateMemory(tags, importance)
    \/ \E x \in RecordImportances : UpdateImportance(x)
    \/ \E t \in RecordTags : AddTag(t)

SpecRecord == Init /\ [][NextRecord]_vars

\* ------------------------------------------------------------------ claims
\* the identifiers list_all enumerates, with repetitions counted
Enumerated(ord) == load_all_memories(files, ord)
Indexed == {id \in Ids : memory_cache[id] # NoMemory}

\* C1: after reconcile returns, every record list_all enumerates has its
\* identifier in the Search Index, and on a fresh session the number of
\* indexed records equals the number of enumerated records.
C1_ReconcileComplete ==
    last.op = "awaken" =>
        \A ord \in GlobOrders :
            /\ \A k \in DOMAIN Enumerated(ord) : Enumerated(ord)[k].id \in Indexed
            /\ last.arg.fresh => Cardinality(Indexed) = Len(Enumerated(ord))

\* C2: after delete(id) returned true, no query returns a result whose
\* record identifier is id.
C2_DeletedNotReturned ==
    last.op = "query" =>
        \A k \in DOMAIN last.ret : last.ret[k].memory.id \notin deleted

\* C3: store(record), reconcile(), query(record.title) with the default
\* minimum relevance returns a result with the stored identifier whose
\* relevance is at least that minimum.
C3_WriteThenRead ==
    (/\ last.op = "query"
     /\ last.stored # NoMemory
     /\ last.arg.query = last.stored.title
     /\ last.arg.min_relevance = DefaultMinRelevance)
    => \E k \in DOMAIN last.ret :
           /\ last.ret[k].memory.id = last.stored.id
           /\ last.ret[k].relevance_score >= DefaultMinRelevance

\* C4: every identifier in the Search Index has a persisted record file in
\* the Durable Store, in every reachable state, a crash between the two
\* halves of a store included.
C4_NoPhantom ==
    \A id \in Indexed : PartitionsWith(files, id) # {}

\* C5: a reconcile that follows a reconcile with no write in between syncs
\* zero records and leaves the Search Index, and so every query's scores and
\* results, unchanged.
C5_ReconcileIdempotent ==
    (last.op = "awaken" /\ last.arg.again) =>
        /\ last.ret = 0
        /\ memory_cache = last.arg.before.cache
        /\ cache_order = last.arg.before.order
        /\ memory_embeddings = last.arg.before.embs
        /\ \A q \in EngineQueries, qe \in QueryEmbeddings :
              search_memories(memory_cache, cache_order,
                              memory_embeddings, q, qe)
              = search_memories(last.arg.before.cache, last.arg.before.order,
                                last.arg.before.embs, q, qe)

\* a second reconcile has run over a non-empty index that holds an embedding
C5_Witness ==
    /\ last.op = "awaken"
    /\ last.arg.again
    /\ \E id \in Indexed : memory_embeddings[id] # NoVec
    /\ \E id \in Indexed : memory_embeddings[id] = NoVec

\* C6: after put(r) returns, get(r.identifier) returns r, also when the
\* identifier was put before under another scope or category.
C6_GetReturnsLastPut ==
    (last.op = "get" /\ last.put # NoMemory) => last.ret = last.put

\* C7: the Durable Store holds at most one record file per identifier across
\* all partitions, and list_all enumerates each identifier at most once.
C7_OneRecordPerIdentifier ==
    /\ \A id \in Ids : Cardinality(PartitionsWith(files, id)) <= 1
    /\ last.op = "list_all" =>
          \A j, k \in DOMAIN last.ret :
              last.ret[j].id = last.ret[k].id => j = k

\* C8: after delete(id) returned true, get(id) finds nothing and list_all
\* enumerates no record with that identifier; delete(id) returns false exactly
\* when no file of that identifier existed, and then changes nothing.
C8_DeleteRemoves ==
    [][last'.op = "delete" =>
          /\ last'.ret = TRUE =>
                /\ load_memory(files', last'.arg) = NoMemory
                /\ \A ord \in GlobOrders :
                      \A k \in DOMAIN load_all_memories(files', ord) :
                          load_all_memories(files', ord)[k].id # last'.arg
          /\ last'.ret = FALSE <=> PartitionsWith(files, last'.arg) = {}
          /\ last'.ret = FALSE => (files' = files /\ index' = index)]_vars

C10_ResultsSatisfyFilters ==
    last.op = "query" =>
        \A k \in DOMAIN last.ret :
            LET m == last.ret[k].memory
                q == last.arg
            IN  /\ q.scopes # {} => m.scope \in q.scopes
                /\ q.memory_types # {} => m.memory_type \in q.memory_types
                /\ q.tags # {} => \E t \in q.tags : t \in SeqToSet(m.tags)

\* a query restricted to the global scope returned a record while a project
\* record that passes the threshold is in the index
C10_Witness ==
    /\ last.op = "query"
    /\ last.arg.scopes = {"global"}
    /\ last.arg.min_relevance = 0
    /\ Len(last.ret) = 1
    /\ \E id \in Indexed : memory_cache[id].scope = "project"

\* no field of the record contains the query text and no token is shared
Unrelated(memory, qtext) ==
    /\ ~Contains(Lower(qtext), Lower(memory.title))
    /\ ~Contains(Lower(qtext), Lower(memory.content))
    /\ ~AnyContains(Lower(qtext), memory.tags)
    /\ ~AnyContains(Lower(qtext), memory.context)
    /\ Split(Lower(qtext)) \cap
         (Split(Lower(memory.title)) \cup Split(Lower(memory.content))) = {}

NoEmbeddings == \A id \in Ids : memory_embeddings[id] = NoVec

\* C11: with no embeddings at all, a query equal to record A's title scores A
\* strictly above a record B that shares no substring and no token with the
\* query, whatever the two importances, and returns A before B.
C11_LexicalRanksTitleMatchFirst ==
    (last.op = "query" /\ NoEmbeddings) =>
        \A a \in Indexed, b \in Indexed :
            (/\ last.arg.query = memory_cache[a].title
             /\ Unrelated(memory_cache[b], last.arg.query)) =>
                \E i \in DOMAIN last.ret, j \in DOMAIN last.ret :
                    /\ last.ret[i].memory = memory_cache[a]
                    /\ last.ret[j].memory = memory_cache[b]
                    /\ last.ret[i].relevance_score > last.ret[j].relevance_score
                    /\ i < j

C11_Witness ==
    /\ last.op = "query" /\ NoEmbeddings
    /\ Indexed = Ids
    /\ last.arg.query = memory_cache["m1"].title
    /\ memory_cache["m1"].importance = 0
    /\ memory_cache["m1"].content = <<"c">>
    /\ Unrelated(memory_cache["m2"], last.arg.query)
    /\ memory_cache["m2"].importance = 10
    /\ cache_order = <<"m2", "m1">>
    /\ Len(last.ret) = 2

\* C12: results are in descending score order; equal scores are ordered by
\* descending importance, then by descending recency (created_at).
C12_TieBreakOrder ==
    last.op = "query" =>
        \A i \in DOMAIN last.ret, j \in DOMAIN last.ret :
            i < j =>
                \/ last.ret[i].relevance_score > last.ret[j].relevance_score
                \/ /\ last.ret[i].relevance_score = last.ret[j].relevance_score
                   /\ \/ last.ret[i].memory.importance > last.ret[j].memory.importance
                      \/ /\ last.ret[i].memory.importance = last.ret[j].memory.importance
                         /\ last.ret[i].memory.created_at >= last.ret[j].memory.created_at

\* the score the query gave, or would have given, to a cached entry
ScoreOf(id) ==
    calculate_relevance(memory_cache[id], last.arg.query, last.qe,
                        memory_embeddings[id])
\* the cached entries that satisfy the threshold and every specified filter
Qualifying ==
    {id \in Indexed :
        /\ ScoreOf(id) >= last.arg.min_relevance
        /\ last.arg.scopes # {} => memory_cache[id].scope \in last.arg.scopes
        /\ last.arg.memory_types # {} =>
               memory_cache[id].memory_type \in last.arg.memory_types
        /\ last.arg.tags # {} =>
               \E t \in last.arg.tags : t \in SeqToSet(memory_cache[id].tags)}
Returned == {last.ret[k].memory.id : k \in DOMAIN last.ret}

\* C13: query returns the min(max_results, n) highest-scoring of the n
\* qualifying cached entries: never more than max_results, never one below
\* the threshold, never omitting a qualifying entry that scores strictly
\* higher than a returned one.
C13_TopQualifying ==
    last.op = "query" =>
        /\ Len(last.ret) <= last.arg.max_results
        /\ Cardinality(Returned) = Len(last.ret)
        /\ Returned \subseteq Qualifying
        /\ Len(last.ret) = IF Cardinality(Qualifying) < last.arg.max_results
                           THEN Cardinality(Qualifying)
                           ELSE last.arg.max_results
        /\ \A k \in DOMAIN last.ret :
               /\ last.ret[k].relevance_score >= last.arg.min_relevance
               /\ last.ret[k].relevance_score = ScoreOf(last.ret[k].memory.id)
        /\ \A id \in Qualifying \ Returned : \A k \in DOMAIN last.ret :
               ScoreOf(id) <= last.ret[k].relevance_score

C13_Witness ==
    /\ last.op = "query"
    /\ last.arg.max_results = 1
    /\ Cardinality(Qualifying) = 2
    /\ Len(last.ret) = 1
    /\ ScoreOf(cache_order[1]) < last.ret[1].relevance_score

\* C14: put returns normally only if both the record file and the lookup-index
\* entry of the record were written; a failed write is reported as an error.
C14_PutNeverFailsSilently ==
    (last.op = "put" /\ last.ret = "ok") =>
        /\ files[FileKey(last.arg)] = JsonDump(last.arg)
        /\ index[last.arg.scope][last.arg.id] =
               [type |-> last.arg.memory_type, title |-> last.arg.title,
                tags |-> last.arg.tags, importance |-> last.arg.importance]

WellFormed == {k \in FileKeys : files[k].kind = "json"}

\* C15: list_all returns exactly the well-formed records, whatever malformed
\* files lie beside them.
C15_ListAllSkipsMalformed ==
    last.op = "list_all" =>
        /\ Len(last.ret) = Cardinality(WellFormed)
        /\ \A k \in WellFormed :
               \E i \in DOMAIN last.ret : last.ret[i] = files[k].data
        /\ \A i \in DOMAIN last.ret :
               \E k \in WellFormed : last.ret[i] = files[k].data

C15_Witness ==
    /\ last.op = "list_all"
    /\ \E k \in FileKeys : files[k] = BadFile
    /\ Len(last.ret) = 1

\* C16: query on an empty index, or when no cached entry qualifies, returns
\* the empty sequence.
C16_EmptyQueryReturnsEmpty ==
    (last.op = "query" /\ (Indexed = {} \/ Qualifying = {})) => last.ret = <<>>

C16_Witness ==
    /\ last.op = "query"
    /\ Indexed = {}
    /\ WellFormed # {}
    /\ last.ret = <<>>

\* C17: once every upsert in flight has completed, each cached record is
\* paired with the embedding generated for that same record, not with the
\* embedding another upsert of the identifier wrote.
C17_UpsertsAtomic ==
    (\A w \in Writers : in_upsert[w] = NoMemory) =>
        \A id \in Indexed :
            memory_embeddings[id] = TextEmbedding(memory_cache[id])

\* C18: an identifier that delete evicted from the Search Index, and that was
\* not stored again, is not in the Search Index, whatever reconcile ran since.
C18_NoReindexAfterDelete ==
    \A id \in deleted : id \notin Indexed

\* C19: every memory_recall or memory_remember that reaches the manager finds
\* a manager on which an awaken has completed successfully.
C19_AwakenBeforeUse ==
    (last.op \in {"memory_recall", "memory_remember"} /\ last.reached) =>
        last.awakened

\* the cosine term of the formula: present only with both embeddings
ClaimedSemantic(qe, me) ==
    IF qe # NoVec /\ me # NoVec THEN Cosine(qe, me) ELSE 0
Clamp01(x) == IF x < 0 THEN 0 ELSE IF x > Unit THEN Unit ELSE x

\* C20: the score is clamp_[0,1](0.7*s + 0.3*l + 0.1*b), s the cosine when
\* both embeddings exist and 0 otherwise, l the lexical score and b the
\* importance bonus (importance / 10) * 0.1.
C20_ScoreFormula ==
    (/\ last.op = "relevance"
     /\ (last.arg.qe = NoVec \/ last.arg.me = NoVec
            \/ Len(last.arg.qe) = Len(last.arg.me))) =>
        last.ret =
            Clamp01((7 * ClaimedSemantic(last.arg.qe, last.arg.me)) \div 10
                  + (3 * calculate_keyword_relevance(last.arg.memory,
                                                     last.arg.query)) \div 10
                  + ((last.arg.memory.importance * Unit) \div 100) \div 10)

\* 1 for a true statement, 0 for a false one
Iverson(b) == IF b THEN 1 ELSE 0

\* the lexical score as the formula states it, in 1/Unit
ClaimedLexical(memory, qtext) ==
    LET q == Lower(qtext)
        Wq == Split(q)
        Wtitle == Split(Lower(memory.title))
        Wcontent == Split(Lower(memory.content))
        sum ==
            4 * (Unit \div 10) * Iverson(Contains(q, Lower(memory.title)))
          + 3 * (Unit \div 10) * Iverson(Contains(q, Lower(memory.content)))
          + 2 * (Unit \div 10) *
                Iverson(\E i \in DOMAIN memory.tags :
                            Contains(q, Lower(memory.tags[i])))
          + (Unit \div 10) *
                Iverson(\E i \in DOMAIN memory.context :
                            Contains(q, Lower(memory.context[i])))
          + ((Unit \div 10) * Cardinality(Wq \cap Wtitle)) \div Cardinality(Wq)
          + ((Unit \div 20) * Cardinality(Wq \cap Wcontent)) \div Cardinality(Wq)
    IN  IF sum > Unit THEN Unit ELSE sum

\* C21: for a query with at least one word, the lexical score is the capped
\* weighted sum of the formula, case-insensitive, with the tag and context
\* bonuses counted once, and lies in [0, 1].
C21_LexicalFormula ==
    (last.op = "keyword_relevance" /\ Split(last.arg.query) # {}) =>
        /\ last.ret = ClaimedLexical(last.arg.memory, last.arg.query)
        /\ 0 <= last.ret /\ last.ret <= Unit

C21_Witness ==
    /\ last.op = "keyword_relevance"
    /\ last.arg.query = <<"a">>
    /\ last.arg.memory.tags = << <<"a">>, <<"A", " ", "b">> >>
    /\ Len(last.arg.memory.context) = 2
    /\ last.arg.memory.title = <<"B">>
    /\ last.ret < Unit

\* C22: the match reasons name "Semantic similarity" exactly when the
\* semantic term entered the score, that is when both the query embedding and
\* the record's cached embedding existed.
C22_SemanticReasonIffContributed ==
    last.op = "match_reasons" =>
        ((\E i \in DOMAIN last.ret : last.ret[i].reason = "Semantic similarity")
            <=> (last.arg.qe # NoVec /\ last.arg.me # NoVec))

\* C23: the embedding cached for an indexed identifier is the one computed
\* from the record now cached, or is absent; it is never the embedding of an
\* earlier content.
C23_EmbeddingFollowsContent ==
    \A id \in Indexed :
        \/ memory_embeddings[id] = NoVec
        \/ memory_embeddings[id] = TextEmbedding(memory_cache[id])

\* C24: when a put of r2 fails while the only file of its identifier holds a
\* persisted r1, a get of the identifier afterwards returns r1 or r2 and every
\* enumeration still lists the identifier.
C24_ReplaceAtomic ==
    [][(/\ last'.op = "put"
        /\ last'.ret = "error"
        /\ files[FileKey(last'.arg)].kind = "json"
        /\ Cardinality(PartitionsWith(files, last'.arg.id)) = 1)
       => /\ load_memory(files', last'.arg.id) \in
                {JsonLoad(files[FileKey(last'.arg)]), last'.arg}
          /\ \A ord \in GlobOrders :
                 \E k \in DOMAIN load_all_memories(files', ord) :
                     load_all_memories(files', ord)[k].id = last'.arg.id]_vars

\* C25: once every concurrent put has returned, each record file that exists
\* has an entry for its identifier in the lookup index of its scope.
C25_ConcurrentPutsIndexed ==
    (\A w \in Writers : in_put[w] = NoMemory) =>
        \A k \in FileKeys :
            files[k].kind = "json" => index[k[1]][k[3]] # NoEntry

\* C26: a query returns every qualifying entry that was in the Search Index
\* when the query began and that no concurrent upsert replaced, whatever was
\* upserted for other identifiers while it ran.
C26_ConcurrentQueryComplete ==
    last.op = "query" =>
        \A id \in Qualifying :
            (/\ last.before.cache[id] = memory_cache[id]
             /\ last.before.embs[id] = memory_embeddings[id])
            => id \in Returned

IndexedBefore == {id \in Ids : last.arg.before.cache[id] # NoMemory}

C28_IndexMatchesFiles ==
    \A scope \in SeqToSet(MemoryScope) :
        /\ {id \in Ids : index[scope][id] # NoEntry}
              = {id \in Ids : \E type \in SeqToSet(MemoryType) :
                                  files[<<scope, type, id>>] # NoFile}
        /\ \A id \in Ids :
               index[scope][id] # NoEntry =>
                   files[<<scope, index[scope][id].type, id>>] # NoFile

\* max(0, min(10, x)) by cases
ClaimedImportance(x) == IF x < 0 THEN 0 ELSE IF x > 10 THEN 10 ELSE x

\* C29: a record's importance lies in [0, 10], and after update_importance(x)
\* it is max(0, min(10, x)).
C29_ImportanceClamped ==
    record # NoMemory =>
        /\ record.importance >= 0
        /\ record.importance <= 10
        /\ last.op = "update_importance" =>
               record.importance = ClaimedImportance(last.arg)

\* update_importance was called with an argument above the range
C29_Witness ==
    /\ record # NoMemory
    /\ last.op = "update_importance"
    /\ last.arg > 10
    /\ record.importance = 10

\* C30: a record's tags hold no tag twice, and add_tag of a tag the record
\* already has leaves the tags as they were.
C30_TagsDeduplicated ==
    record # NoMemory =>
        /\ \A i, j \in DOMAIN record.tags :
               record.tags[i] = record.tags[j] => i = j
        /\ (last.op = "add_tag" /\ last.arg \in SeqToSet(last.before)) =>
               record.tags = last.before

====
